---- MODULE Spec2Model ----
(***************************************************************************)
(* Model of the eloizer command line layer (cli/src): the analyze          *)
(* pipeline, the config entry point, the rule listing, and the pure        *)
(* helpers they use (path normalisation, ignore-list parsing, grouped      *)
(* rendering).  Strings are sequences of one-character strings.            *)
(***************************************************************************)
EXTENDS Integers, Sequences, FiniteSets, TLC

VARIABLES
    output_path,     \* save_report: the requested output path
    final_path,      \* save_report: the path handed to the report generator
    save_result,     \* save_report: "none" before the call, then "Ok" / "Err"
    opt_in,          \* option parsing: [ignore, ignore_rules] as given to run
    opt_out,         \* option parsing: [built, options, warnings]
    view_in,         \* rendering: what is rendered and the flags
    view_out,        \* rendering: the lines emitted
    main_in,         \* main: the parsed command line and the files it names
    pc,              \* the command's position: "main", a stage of a run, "done"
    args,            \* analyze::run: its parameters
    results,         \* analyze::run: the parsed files process_directory returned
    outcome,         \* analyze::run: what analyze_files returned
    trace,           \* everything printed, logged or called so far, in order
    ret              \* the command's return value: [status, error, message]

pathVars == <<output_path, final_path, save_result>>
optVars == <<opt_in, opt_out>>
viewVars == <<view_in, view_out>>
runVars == <<main_in, pc, args, results, outcome, trace, ret>>

vars == <<output_path, final_path, save_result, opt_in, opt_out, view_in, view_out,
          main_in, pc, args, results, outcome, trace, ret>>

None == <<"None">>

(***************************************************************************)
(* Strings                                                                 *)
(***************************************************************************)
S_md == <<".", "m", "d">>
S_markdown == <<".", "m", "a", "r", "k", "d", "o", "w", "n">>

RECURSIVE Flatten(_)
Flatten(ss) == IF ss = <<>> THEN <<>> ELSE Head(ss) \o Flatten(Tail(ss))

\* all sequences over S of length 0..n
SeqsUpTo(S, n) == UNION {[1..k -> S] : k \in 0..n}

\* str::ends_with
EndsWith(s, suf) ==
    /\ Len(s) >= Len(suf)
    /\ SubSeq(s, Len(s) - Len(suf) + 1, Len(s)) = suf

\* index of the last occurrence of character c in s[lo+1 .. Len(s)], 0 when absent
LastIndexOf(s, c, lo) ==
    LET I == {i \in (lo + 1)..Len(s) : s[i] = c}
    IN IF I = {} THEN 0 ELSE CHOOSE i \in I : \A j \in I : j <= i

\* str::split(c): the segments between occurrences of c (never empty)
RECURSIVE Split(_, _)
Split(s, c) ==
    LET I == {i \in 1..Len(s) : s[i] = c}
    IN IF I = {} THEN <<s>>
       ELSE LET i == CHOOSE k \in I : \A j \in I : k <= j
            IN <<SubSeq(s, 1, i - 1)>> \o Split(SubSeq(s, i + 1, Len(s)), c)

\* A string of this module holds characters of U+0000..U+00FF.

\* char::is_whitespace (the Unicode White_Space property) on those
\* characters: U+0009..U+000D, U+0020, U+0085 and U+00A0
WhiteSpace == {"\t", "\n", "", "\f", "\r", " ", "", " "}

\* str::trim
RECURSIVE TrimStart(_)
TrimStart(s) ==
    IF s # <<>> /\ Head(s) \in WhiteSpace THEN TrimStart(Tail(s)) ELSE s

RECURSIVE TrimEnd(_)
TrimEnd(s) ==
    IF s # <<>> /\ s[Len(s)] \in WhiteSpace
    THEN TrimEnd(SubSeq(s, 1, Len(s) - 1)) ELSE s

Trim(s) == TrimEnd(TrimStart(s))

\* the characters of U+0000..U+00FF that char::to_lowercase changes (A..Z,
\* U+00C0..U+00D6, U+00D8..U+00DE) and, at the same index, what each becomes
UpperChars == <<"A", "B", "C", "D", "E", "F", "G", "H", "I", "J", "K", "L", "M",
                "N", "O", "P", "Q", "R", "S", "T", "U", "V", "W", "X", "Y", "Z",
                "À", "Á", "Â", "Ã", "Ä", "Å", "Æ", "Ç", "È", "É", "Ê", "Ë", "Ì",
                "Í", "Î", "Ï", "Ð", "Ñ", "Ò", "Ó", "Ô", "Õ", "Ö", "Ø", "Ù", "Ú",
                "Û", "Ü", "Ý", "Þ">>
LowerChars == <<"a", "b", "c", "d", "e", "f", "g", "h", "i", "j", "k", "l", "m",
                "n", "o", "p", "q", "r", "s", "t", "u", "v", "w", "x", "y", "z",
                "à", "á", "â", "ã", "ä", "å", "æ", "ç", "è", "é", "ê", "ë", "ì",
                "í", "î", "ï", "ð", "ñ", "ò", "ó", "ô", "õ", "ö", "ø", "ù", "ú",
                "û", "ü", "ý", "þ">>

LowerChar(c) ==
    IF \E i \in 1..Len(UpperChars) : UpperChars[i] = c
    THEN LowerChars[CHOOSE i \in 1..Len(UpperChars) : UpperChars[i] = c]
    ELSE c

\* str::to_lowercase: on U+0000..U+00FF every character maps to one character
ToLowercase(s) == [i \in 1..Len(s) |-> LowerChar(s[i])]

(***************************************************************************)
(* std::path on Unix, as far as PathBuf::set_extension needs it            *)
(***************************************************************************)
\* Components: bytes before the body (the root "/" or a leading "." component)
LenBeforeBody(p) ==
    IF Len(p) >= 1 /\ p[1] = "/" THEN 1
    ELSE IF p = <<".">> \/ (Len(p) >= 2 /\ p[1] = "." /\ p[2] = "/") THEN 1
    ELSE 0

\* Components::next_back restricted to what file_name() needs: the span
\* [from, to] of the last component when it is a Normal one, else <<0, 0>>.
\* n is the length of the part of p not yet consumed from the back.
RECURSIVE LastNormal(_, _)
LastNormal(p, n) ==
    LET lb == LenBeforeBody(p)
    IN IF n <= lb THEN <<0, 0>>
       ELSE LET q == SubSeq(p, 1, n)
                sep == LastIndexOf(q, "/", lb)
                from == IF sep = 0 THEN lb + 1 ELSE sep + 1
                comp == SubSeq(q, from, n)
                rest == IF sep = 0 THEN lb ELSE sep - 1
            IN IF comp = <<>> \/ comp = <<".">> THEN LastNormal(p, rest)
               ELSE IF comp = <<".", ".">> THEN <<0, 0>>
               ELSE <<from, n>>

\* Path::file_stem via rsplit_file_at_dot: length of the stem of file name f
StemLen(f) ==
    LET dot == LastIndexOf(f, ".", 0)
    IN IF f = <<".", ".">> THEN Len(f)
       ELSE IF dot = 0 THEN Len(f)
       ELSE IF dot = 1 THEN Len(f)
       ELSE dot - 1

\* PathBuf::set_extension("md"): no change when the path has no file name,
\* otherwise truncate right after the stem and push ".md"
SetExtensionMd(p) ==
    LET span == LastNormal(p, Len(p))
    IN IF span = <<0, 0>> THEN p
       ELSE LET f == SubSeq(p, span[1], span[2])
            IN SubSeq(p, 1, span[1] - 1 + StemLen(f)) \o S_md

\* a variant of the normalisation that appends ".md" instead of replacing
FinalPathAppend(p) ==
    IF EndsWith(p, S_md) THEN p ELSE p \o S_md

\* save_report: the final path
FinalPath(p) ==
    IF EndsWith(p, S_md) \/ EndsWith(p, S_markdown) THEN p
    ELSE SetExtensionMd(p)

(***************************************************************************)
(* Severity, RuleType and AnalysisOptions                                  *)
(***************************************************************************)
Severity == {"High", "Medium", "Low", "Informational"}

S_high == <<"h", "i", "g", "h">>
S_medium == <<"m", "e", "d", "i", "u", "m">>
S_low == <<"l", "o", "w">>
S_informational ==
    <<"i", "n", "f", "o", "r", "m", "a", "t", "i", "o", "n", "a", "l">>

\* the match on a lower-cased severity token; "Unknown" is the `_` arm
SeverityOfToken(t) ==
    IF t = S_high THEN "High"
    ELSE IF t = S_medium THEN "Medium"
    ELSE IF t = S_low THEN "Low"
    ELSE IF t = S_informational THEN "Informational"
    ELSE "Unknown"

AllRuleTypes == <<"Solana", "Anchor", "General">>

\* AnalysisOptions::default()
DefaultOptions ==
    [ generate_ast |-> FALSE,
      custom_templates_path |-> None,
      include_rule_types |-> AllRuleTypes,
      ignore_severities |-> <<>>,
      ignore_rules |-> <<>> ]

\* a variant of the severity loop that skips a severity already in the list
RECURSIVE ParseIgnoreDedup(_, _)
ParseIgnoreDedup(toks, acc) ==
    IF toks = <<>> THEN acc
    ELSE LET sev == SeverityOfToken(ToLowercase(Trim(Head(toks))))
         IN ParseIgnoreDedup(Tail(toks),
                IF sev = "Unknown"
                THEN [acc EXCEPT !.warnings = Append(@, Head(toks))]
                ELSE IF \E i \in 1..Len(acc.sevs) : acc.sevs[i] = sev
                THEN acc
                ELSE [acc EXCEPT !.sevs = Append(@, sev)])

\* a variant of the severity loop that gives up at the first unknown token
RECURSIVE ParseIgnoreStop(_, _)
ParseIgnoreStop(toks, acc) ==
    IF toks = <<>> THEN acc
    ELSE LET sev == SeverityOfToken(ToLowercase(Trim(Head(toks))))
         IN IF sev = "Unknown"
            THEN [acc EXCEPT !.warnings = Append(@, Head(toks))]
            ELSE ParseIgnoreStop(Tail(toks), [acc EXCEPT !.sevs = Append(@, sev)])

\* the loop over ignore_str.split(','): push the severity or warn
RECURSIVE ParseIgnoreLoop(_, _)
ParseIgnoreLoop(toks, acc) ==
    IF toks = <<>> THEN acc
    ELSE LET sev == SeverityOfToken(ToLowercase(Trim(Head(toks))))
         IN ParseIgnoreLoop(Tail(toks),
                IF sev = "Unknown"
                THEN [acc EXCEPT !.warnings = Append(@, Head(toks))]
                ELSE [acc EXCEPT !.sevs = Append(@, sev)])

\* "Parse severities to ignore": [sevs, warnings]
ParseIgnoreSeverities(ignore) ==
    IF ignore = None THEN [sevs |-> <<>>, warnings |-> <<>>]
    ELSE ParseIgnoreLoop(Split(ignore, ","), [sevs |-> <<>>, warnings |-> <<>>])

\* "Parse rule IDs to ignore": every token, trimmed
ParseIgnoreRules(ignore_rules) ==
    IF ignore_rules = None THEN <<>>
    ELSE LET toks == Split(ignore_rules, ",")
         IN [i \in 1..Len(toks) |-> Trim(toks[i])]

\* a variant of the options that leaves the General rules out
BuildOptionsTwoTypes(generate_ast, templates, ignore, ignore_rules) ==
    LET parsed == ParseIgnoreSeverities(ignore)
    IN [ options |->
           [ DefaultOptions EXCEPT
               !.generate_ast = generate_ast,
               !.custom_templates_path = templates,
               !.include_rule_types = <<"Solana", "Anchor">>,
               !.ignore_severities = @ \o parsed.sevs,
               !.ignore_rules = @ \o ParseIgnoreRules(ignore_rules) ],
         warnings |-> parsed.warnings ]

\* "Create analysis options": the options value and the warnings logged
BuildOptions(generate_ast, templates, ignore, ignore_rules) ==
    LET parsed == ParseIgnoreSeverities(ignore)
    IN [ options |->
           [ DefaultOptions EXCEPT
               !.generate_ast = generate_ast,
               !.custom_templates_path = templates,
               !.include_rule_types = <<"Solana", "Anchor", "General">>,
               !.ignore_severities = @ \o parsed.sevs,
               !.ignore_rules = @ \o ParseIgnoreRules(ignore_rules) ],
         warnings |-> parsed.warnings ]

(***************************************************************************)
(* Findings, rules and the engine's result                                 *)
(***************************************************************************)
\* A Finding is [description, severity, code_snippet, recommendations]:
\* description is a label, code_snippet says whether a snippet is present
\* and recommendations whether the list is non-empty.  A Rule is [id, severity].

\* stats.findings_by_severity is a map from some of the severities to a count
NoStats == [sev \in {} |-> 0]

\* the map with one entry per severity that occurs among the findings,
\* holding the number of findings of that severity
StatsOf(findings) ==
    [sev \in {findings[i].severity : i \in 1..Len(findings)} |->
        Cardinality({i \in 1..Len(findings) : findings[i].severity = sev})]

\* the map with an entry for every severity, zero for one that does not occur
ZeroFilledStats(findings) ==
    [sev \in Severity |->
        Cardinality({i \in 1..Len(findings) : findings[i].severity = sev})]

\* the maps an engine that counts its findings may return
EngineStats(findings) == {StatsOf(findings), ZeroFilledStats(findings)}

\* every map from some severities to a count of at most n
AllStats(n) == UNION {[D -> 0..n] : D \in SUBSET Severity}

\* the engine excludes the findings of an ignored severity
RespectsIgnores(options, sevs) ==
    \A i \in 1..Len(sevs) : \A k \in 1..Len(options.ignore_severities) :
        sevs[i] # options.ignore_severities[k]

\* the AnalysisResult of a successful analyze_files
AnalysisResultOf(findings, stats) ==
    [findings |-> findings, stats |-> [findings_by_severity |-> stats]]

(***************************************************************************)
(* Console output: one record per line (or per collaborator call)          *)
(***************************************************************************)
Ev(k, sev, n, i) == [k |-> k, sev |-> sev, n |-> n, i |-> i]
Line(k) == Ev(k, "-", 0, 0)

SelectKind(evs, k) == SelectSeq(evs, LAMBDA e : e.k = k)

SummarySeverityOrderNoLow == <<"High", "Medium", "Informational">>

\* the severity array print_summary iterates
SummarySeverityOrder == <<"High", "Medium", "Low", "Informational">>

\* print_summary
PrintSummary(analysis_result) ==
    LET total == Len(analysis_result.findings)
        severity_counts == analysis_result.stats.findings_by_severity
        CountLine(sev) ==
            IF sev \in DOMAIN severity_counts
            THEN <<Ev("count", sev, severity_counts[sev], 0)>>
            ELSE <<>>
    IN <<Line("rule"), Line("summary_title")>> \o
       IF total = 0 THEN <<Line("no_vulnerabilities")>>
       ELSE <<Ev("total", "-", total, 0)>> \o
            Flatten([k \in 1..Len(SummarySeverityOrder) |->
                        CountLine(SummarySeverityOrder[k])]) \o
            <<Line("blank")>>

FindingsSeverityOrderSwapped == <<"Medium", "High", "Low", "Informational">>

\* the severity array print_findings iterates
FindingsSeverityOrder == <<"High", "Medium", "Low", "Informational">>

\* "Group by severity": entry(severity).or_insert_with(Vec::new).push(finding)
GroupBySeverity(findings) ==
    [sev \in {findings[i].severity : i \in 1..Len(findings)} |->
        SelectSeq(findings, LAMBDA f : f.severity = sev)]

\* the lines of the finding numbered index
FindingLines(finding, sev, index, verbose) ==
    <<Ev("finding", sev, index, finding.description),
      Ev("location", sev, index, finding.description)>> \o
    (IF verbose /\ finding.code_snippet
     THEN <<Ev("code", sev, index, finding.description)>> ELSE <<>>) \o
    (IF verbose /\ finding.recommendations
     THEN <<Ev("recommendations", sev, index, finding.description)>> ELSE <<>>) \o
    <<Line("blank")>>

\* a variant of the loop whose counter starts again at 1 in every group
RECURSIVE PrintFindingsLoopReset(_, _, _, _)
PrintFindingsLoopReset(order, groups, index, verbose) ==
    IF order = <<>> THEN <<>>
    ELSE LET sev == Head(order)
         IN IF sev \in DOMAIN groups
            THEN <<Ev("header", sev, 0, 0)>> \o
                 Flatten([k \in 1..Len(groups[sev]) |->
                            FindingLines(groups[sev][k], sev, k, verbose)]) \o
                 PrintFindingsLoopReset(Tail(order), groups, 1, verbose)
            ELSE PrintFindingsLoopReset(Tail(order), groups, index, verbose)

\* the loop over the severities of print_findings; index is the counter
RECURSIVE PrintFindingsLoop(_, _, _, _)
PrintFindingsLoop(order, groups, index, verbose) ==
    IF order = <<>> THEN <<>>
    ELSE LET sev == Head(order)
         IN IF sev \in DOMAIN groups
            THEN <<Ev("header", sev, 0, 0)>> \o
                 Flatten([k \in 1..Len(groups[sev]) |->
                            FindingLines(groups[sev][k], sev, index + k - 1, verbose)]) \o
                 PrintFindingsLoop(Tail(order), groups,
                                   index + Len(groups[sev]), verbose)
            ELSE PrintFindingsLoop(Tail(order), groups, index, verbose)

\* print_findings
PrintFindings(analysis_result, verbose) ==
    IF analysis_result.findings = <<>> THEN <<>>
    ELSE <<Line("rule"), Line("details_title")>> \o
         PrintFindingsLoop(FindingsSeverityOrder,
                           GroupBySeverity(analysis_result.findings), 1, verbose)

\* the severity array list_rules::run iterates
RulesSeverityOrder == <<"High", "Medium", "Low", "Informational">>

\* the lines of one severity group of the rule listing
RuleGroupLines(sev, filtered_rules, detailed) ==
    LET severity_rules == SelectSeq(filtered_rules, LAMBDA r : r.severity = sev)
    IN IF severity_rules = <<>> THEN <<>>
       ELSE <<Ev("header", sev, Len(severity_rules), 0)>> \o
            Flatten([k \in 1..Len(severity_rules) |->
                <<Ev("rule_line", sev, 0, severity_rules[k].id)>> \o
                (IF detailed
                 THEN <<Ev("rule_description", sev, 0, severity_rules[k].id),
                        Line("blank")>>
                 ELSE <<>>)]) \o
            <<Line("blank")>>

\* list_rules::run on the catalog `rules`: [out, result]
ListRules(rules, severity_filter, detailed) ==
    LET head == <<Line("rules_title"), Line("create_analyzer"), Line("rules")>>
        target == IF severity_filter = None THEN "None"
                  ELSE SeverityOfToken(ToLowercase(severity_filter))
        filtered_rules ==
            IF severity_filter = None THEN rules
            ELSE SelectSeq(rules, LAMBDA r : r.severity = target)
    IN IF target = "Unknown"
       THEN [out |-> head \o <<Line("err_unknown_severity")>>, result |-> "Err"]
       ELSE IF filtered_rules = <<>>
       THEN [out |-> head \o <<Line("no_rules_found")>>, result |-> "Ok"]
       ELSE [out |-> head \o
                     Flatten([k \in 1..Len(RulesSeverityOrder) |->
                        RuleGroupLines(RulesSeverityOrder[k], filtered_rules, detailed)])
                     \o <<Ev("total", "-", Len(filtered_rules), 0)>>,
             result |-> "Ok"]

Digits == <<"0", "1", "2", "3", "4", "5", "6", "7", "8", "9">>

\* r.id() of a catalog rule: the rule labelled i carries the id "R<i>"
RuleId(r) == <<"R", Digits[(r.id % 10) + 1]>>

\* rule_info::run on the catalog `rules`: [out, result]; the rule shown is the
\* first whose lower-cased id equals the lower-cased rule_id
RuleInfo(rules, rule_id) ==
    LET head == <<Line("create_analyzer"), Line("rules")>>
        found == {i \in 1..Len(rules) :
                     ToLowercase(RuleId(rules[i])) = ToLowercase(rule_id)}
    IN IF found = {}
       THEN [out |-> head \o <<Line("err_rule_not_found"), Line("hint_list_rules")>>,
             result |-> "Err"]
       ELSE LET r == rules[CHOOSE i \in found : \A j \in found : i <= j]
            IN [out |-> head \o
                        <<Line("info_heading"),
                          Ev("info_id", r.severity, 0, r.id),
                          Ev("info_title", r.severity, 0, r.id),
                          Ev("info_severity", r.severity, 0, r.id),
                          Line("info_description_label"),
                          Ev("info_description", r.severity, 0, r.id)>>,
                result |-> "Ok"]

(***************************************************************************)
(* Specification SpecPath: save_report applied to bounded output paths     *)
(***************************************************************************)
MaxPathPieces == 4

PathPieces ==
    { <<"r">>, <<".">>, <<"/">>, <<"m", "d">>, <<".", "t">>, S_markdown }

PathInputs(n) == {Flatten(ps) : ps \in SeqsUpTo(PathPieces, n)}

PathIdle ==
    /\ output_path = None
    /\ final_path = None
    /\ save_result = "none"

NotBuilt == [built |-> FALSE, options |-> DefaultOptions, warnings |-> <<>>]

OptIdle ==
    /\ opt_in = [ignore |-> None, ignore_rules |-> None]
    /\ opt_out = NotBuilt

NoView ==
    [kind |-> "none", findings |-> <<>>, stats |-> NoStats, verbose |-> FALSE,
     rules |-> <<>>, severity_filter |-> None, detailed |-> FALSE]

NotRendered ==
    [done |-> FALSE, summary |-> <<>>, details |-> <<>>, listing |-> <<>>,
     result |-> "none"]

ViewIdle ==
    /\ view_in = NoView
    /\ view_out = NotRendered

\* the configuration file: state is "missing", "unreadable", "malformed",
\* "no_report_file" or "valid"; the other fields are the parsed Config
NoConfig ==
    [state |-> "none", path |-> "none", generate_ast |-> FALSE, report_file |-> None,
     ignore_severities |-> <<>>, ignore_rules |-> <<>>, include_rule_types |-> <<>>,
     verbose |-> FALSE, quiet |-> FALSE]

NoCommand ==
    [command |-> "none", verbose |-> FALSE, quiet |-> FALSE,
     config |-> NoConfig, severity |-> None, detailed |-> FALSE,
     rules |-> <<>>, rule_id |-> None, output |-> None]

NoArgs ==
    [path |-> "none", templates |-> None, output |-> None, generate_ast |-> FALSE,
     ignore |-> None, ignore_rules |-> None, verbose |-> FALSE, quiet |-> FALSE]

NoOutcome == [status |-> "none", findings |-> <<>>, stats |-> NoStats, message |-> "-"]

Running == [status |-> "running", error |-> "-", message |-> "-"]
Ok == [status |-> "Ok", error |-> "-", message |-> "-"]
Err(error, message) == [status |-> "Err", error |-> error, message |-> message]

RunIdle ==
    /\ main_in = NoCommand
    /\ pc = "idle"
    /\ args = NoArgs
    /\ results = <<>>
    /\ outcome = NoOutcome
    /\ trace = <<>>
    /\ ret = Running

InitPath ==
    /\ output_path \in PathInputs(MaxPathPieces)
    /\ final_path = None
    /\ save_result = "none"
    /\ OptIdle
    /\ ViewIdle
    /\ RunIdle

\* save_report: normalise the path, then the generator writes or fails
SaveReport ==
    /\ save_result = "none"
    /\ output_path # None
    /\ final_path' = FinalPath(output_path)
    /\ save_result' \in {"Ok", "Err"}
    /\ UNCHANGED output_path
    /\ UNCHANGED <<optVars, viewVars, runVars>>

NextPath == SaveReport

SpecPath == InitPath /\ [][NextPath]_vars

(***************************************************************************)
(* Specification SpecOptions: option building on bounded ignore strings    *)
(***************************************************************************)
MaxIgnorePieces == 4
MaxRulePieces == 4

\* the " MEDIUM " piece is written with a form feed (U+000C) before and a
\* no-break space (U+00A0) after the name
IgnorePieces ==
    { S_low, <<" ", "L", "o", "w", " ">>, <<"\f", "M", "E", "D", "I", "U", "M", " ">>,
      S_high, S_informational, <<"c", "r", "i", "t", "i", "c", "a", "l">>, <<",">> }

RulePieces == { <<"a">>, <<" ", "b", "\f">>, <<",">> }

IgnoreInputs(n) == {Flatten(ps) : ps \in SeqsUpTo(IgnorePieces, n)}
RuleInputs(n) == {Flatten(ps) : ps \in SeqsUpTo(RulePieces, n)}

InitOptions ==
    /\ opt_in \in
         [ignore : IgnoreInputs(MaxIgnorePieces) \cup {None},
          ignore_rules : {None, <<"a", ",", "a">>}]
         \cup [ignore : {None, S_low}, ignore_rules : RuleInputs(MaxRulePieces)]
    /\ opt_out = NotBuilt
    /\ PathIdle
    /\ ViewIdle
    /\ RunIdle

\* run, lines 129-159, on the given ignore strings
BuildOptionsStep ==
    /\ ~opt_out.built
    /\ LET b == BuildOptions(FALSE, None, opt_in.ignore, opt_in.ignore_rules)
       IN opt_out' = [built |-> TRUE, options |-> b.options, warnings |-> b.warnings]
    /\ UNCHANGED opt_in
    /\ UNCHANGED <<pathVars, viewVars, runVars>>

NextOptions == BuildOptionsStep

SpecOptions == InitOptions /\ [][NextOptions]_vars

(***************************************************************************)
(* Specification SpecView: the grouped renderings on bounded inputs        *)
(***************************************************************************)
MaxFindings == 3
MaxRules == 3
MaxStat == 2

\* engine output: the description labels the engine order
FindingsFrom(f) ==
    [i \in 1..Len(f) |-> [description |-> i, severity |-> f[i].severity,
                          code_snippet |-> f[i].code_snippet,
                          recommendations |-> f[i].recommendations]]

FindingShapes == [severity : Severity, code_snippet : BOOLEAN, recommendations : BOOLEAN]

\* the findings print_summary is given: it reads only their number
SummaryShapes == [severity : Severity, code_snippet : {FALSE}, recommendations : {FALSE}]

\* a catalog: the id labels the catalog order
RulesFrom(f) == [i \in 1..Len(f) |-> [id |-> i, severity |-> f[i]]]

FilterInputs ==
    { None, S_high, <<"H", "i", "g", "h">>, S_medium, <<"L", "O", "W">>,
      S_informational, <<" ", "l", "o", "w">>,
      <<"c", "r", "i", "t", "i", "c", "a", "l">> }

InitView ==
    /\ \/ \E n \in 0..MaxFindings : \E f \in [1..n -> FindingShapes] :
           \E v \in BOOLEAN :
              view_in = [NoView EXCEPT !.kind = "findings",
                                       !.findings = FindingsFrom(f),
                                       !.stats = StatsOf(FindingsFrom(f)),
                                       !.verbose = v]
       \/ \E n \in 0..MaxFindings : \E f \in [1..n -> SummaryShapes] :
           \E st \in AllStats(MaxStat) :
              view_in = [NoView EXCEPT !.kind = "summary",
                                       !.findings = FindingsFrom(f), !.stats = st]
       \/ \E n \in 0..MaxRules : \E f \in [1..n -> Severity] :
           \E sf \in FilterInputs : \E d \in BOOLEAN :
              view_in = [NoView EXCEPT !.kind = "rules", !.rules = RulesFrom(f),
                                       !.severity_filter = sf, !.detailed = d]
    /\ view_out = NotRendered
    /\ PathIdle
    /\ OptIdle
    /\ RunIdle

\* the console report of one analysis result: print_summary, print_findings
RenderFindings ==
    /\ view_in.kind = "findings"
    /\ ~view_out.done
    /\ LET analysis_result == AnalysisResultOf(view_in.findings, view_in.stats)
       IN view_out' = [NotRendered EXCEPT
                         !.done = TRUE,
                         !.summary = PrintSummary(analysis_result),
                         !.details = PrintFindings(analysis_result, view_in.verbose),
                         !.result = "Ok"]
    /\ UNCHANGED <<view_in, pathVars, optVars, runVars>>

\* print_summary on an AnalysisResult whose stats are any map
RenderSummary ==
    /\ view_in.kind = "summary"
    /\ ~view_out.done
    /\ LET analysis_result == AnalysisResultOf(view_in.findings, view_in.stats)
       IN view_out' = [NotRendered EXCEPT
                         !.done = TRUE,
                         !.summary = PrintSummary(analysis_result),
                         !.result = "Ok"]
    /\ UNCHANGED <<view_in, pathVars, optVars, runVars>>

\* list_rules::run
RenderRules ==
    /\ view_in.kind = "rules"
    /\ ~view_out.done
    /\ LET r == ListRules(view_in.rules, view_in.severity_filter, view_in.detailed)
       IN view_out' = [NotRendered EXCEPT
                         !.done = TRUE, !.listing = r.out, !.result = r.result]
    /\ UNCHANGED <<view_in, pathVars, optVars, runVars>>

NextView == RenderFindings \/ RenderSummary \/ RenderRules

SpecView == InitView /\ [][NextView]_vars

(***************************************************************************)
(* The commands: main, config::run, list_rules::run, analyze::run          *)
(***************************************************************************)
MaxFiles == 2
MaxRunFindings == 2

When(cond, evs) == IF cond THEN evs ELSE <<>>

\* [String]::join(sep)
RECURSIVE Join(_, _)
Join(list, sep) ==
    IF list = <<>> THEN <<>>
    ELSE IF Len(list) = 1 THEN list[1]
    ELSE list[1] \o sep \o Join(Tail(list), sep)

Step(out, next, r) == [out |-> out, pc |-> next, ret |-> r]

\* a variant of the path checks that lets a non-directory through
ValidatePathNoDirCheck(a) ==
    IF a.path = "missing"
    THEN Step(When(~a.quiet, <<Line("banner")>>) \o <<Line("err_path_missing")>>,
              "done", Err("path_missing", "-"))
    ELSE Step(When(~a.quiet, <<Line("banner"), Line("analyzing_directory")>>),
              "discover", Running)

\* run, lines 21-52: banner, the two path checks, "Analyzing directory"
ValidatePath(a) ==
    IF a.path = "missing"
    THEN Step(When(~a.quiet, <<Line("banner")>>) \o <<Line("err_path_missing")>>,
              "done", Err("path_missing", "-"))
    ELSE IF a.path # "dir"
    THEN Step(When(~a.quiet, <<Line("banner")>>) \o <<Line("err_not_a_directory")>>,
              "done", Err("not_a_directory", "-"))
    ELSE Step(When(~a.quiet, <<Line("banner"), Line("analyzing_directory")>>),
              "discover", Running)

\* a variant of the discovery step that goes on with an empty collection
DiscoverNoEarlyReturn(a, files) ==
    Step(When(~a.quiet, <<Line("spinner_start")>>) \o
         <<Ev("process_directory", "-", Len(files), 0)>> \o
         When(~a.quiet, <<Line("spinner_stop")>>) \o
         When(~a.quiet, <<Ev("found_files", "-", Len(files), 0)>>),
         IF a.generate_ast THEN "emit_ast" ELSE "build_options", Running)

\* run, lines 54-93: spinner, process_directory, the empty case
Discover(a, files) ==
    LET scan == When(~a.quiet, <<Line("spinner_start")>>) \o
                <<Ev("process_directory", "-", Len(files), 0)>> \o
                When(~a.quiet, <<Line("spinner_stop")>>)
    IN IF files = <<>>
       THEN Step(scan \o <<Line("no_files_found")>>, "done", Ok)
       ELSE Step(scan \o When(~a.quiet, <<Ev("found_files", "-", Len(files), 0)>>),
                 IF a.generate_ast THEN "emit_ast" ELSE "build_options", Running)

\* a variant of the AST loop that goes on to the analysis after a failed write
EmitAstSwallow(a, files, written) ==
    LET n == Len(files)
        OneFile(i) ==
            IF i <= written
            THEN <<Ev("fs_write", "Ok", 0, files[i])>> \o
                 When(~a.quiet, <<Ev("ast_written", "-", 0, files[i])>>)
            ELSE IF i = written + 1 THEN <<Ev("fs_write", "Err", 0, files[i])>>
            ELSE <<>>
        writes == Flatten([i \in 1..n |-> OneFile(i)])
    IN Step(When(~a.quiet, <<Line("generating_ast")>>) \o writes \o
            When(~a.quiet, <<Line("blank")>>),
            "build_options", Running)

\* run, lines 95-119: one JSON file per parsed file; written is the number of
\* fs::write calls that succeed before one fails (all of them when it is
\* the number of files)
EmitAst(a, files, written) ==
    LET n == Len(files)
        OneFile(i) ==
            IF i <= written
            THEN <<Ev("fs_write", "Ok", 0, files[i])>> \o
                 When(~a.quiet, <<Ev("ast_written", "-", 0, files[i])>>)
            ELSE IF i = written + 1 THEN <<Ev("fs_write", "Err", 0, files[i])>>
            ELSE <<>>
        writes == Flatten([i \in 1..n |-> OneFile(i)])
    IN IF written < n
       THEN Step(When(~a.quiet, <<Line("generating_ast")>>) \o writes,
                 "done", Err("io", "-"))
       ELSE Step(When(~a.quiet, <<Line("generating_ast")>>) \o writes \o
                 When(~a.quiet, <<Line("blank")>>),
                 "build_options", Running)

\* the collection handed to analyze_files, when only the first file is passed
EngineInputFirst(files) == SubSeq(files, 1, 1)

\* the collection handed to analyze_files: &results
EngineInput(files) == files

\* run, lines 161-179: the analyzer is created, the spinner started and
\* analyze_files called
CallEngine(a, files) ==
    <<Line("create_analyzer_with_options")>> \o
    When(~a.quiet, <<Line("spinner_start")>>) \o
    <<Ev("analyze_files", "-", Len(EngineInput(files)), 0)>>

\* save_report after the path is normalised: the generator's result is saved
SaveReportLines(a, saved) ==
    <<Line("save_markdown_report")>> \o
    IF saved THEN When(~a.quiet, <<Line("report_saved")>>)
    ELSE <<Line("err_save_failed")>>

\* a variant of the Ok arm that prints the summary and the details even
\* when quiet
ReportOkLoud(a, analysis_result, saved) ==
    When(~a.quiet, <<Line("spinner_stop")>>) \o
    When(~a.quiet, <<Line("analysis_completed")>>) \o
    <<Line("print_summary")>> \o PrintSummary(analysis_result) \o
    (IF a.output # None THEN SaveReportLines(a, saved)
     ELSE <<Line("print_findings")>> \o PrintFindings(analysis_result, a.verbose)) \o
    When((a.output = None \/ saved) /\ ~a.quiet, <<Line("completed_successfully")>>)

\* run, lines 180-206 and 220-225: the Ok arm of the match, and the closing
\* message when save_report did not fail
ReportOk(a, analysis_result, saved) ==
    When(~a.quiet, <<Line("spinner_stop")>>) \o
    When(~a.quiet, <<Line("analysis_completed")>>) \o
    When(~a.quiet, <<Line("print_summary")>> \o PrintSummary(analysis_result)) \o
    (IF a.output # None THEN SaveReportLines(a, saved)
     ELSE When(~a.quiet, <<Line("print_findings")>> \o
                           PrintFindings(analysis_result, a.verbose))) \o
    When((a.output = None \/ saved) /\ ~a.quiet, <<Line("completed_successfully")>>)

\* a variant of the Err arm that prints the message before it stops the
\* spinner
ReportErrLate(a) ==
    <<Line("err_analysis_failed")>> \o When(~a.quiet, <<Line("spinner_stop")>>)

\* run, lines 207-217: the Err arm of the match
ReportErr(a) ==
    When(~a.quiet, <<Line("spinner_stop")>>) \o <<Line("err_analysis_failed")>>

(***************************************************************************)
(* Specification Spec: one command from main to its return                 *)
(***************************************************************************)
PathKinds == {"missing", "file", "dir"}

OutputInputs == { None, <<"r">>, <<"r", ".", "m", "d">> }

IgnoreRunInputs ==
    { None, <<" ", "L", "o", "w", " ", ",", "c", "r", "i", "t", ",", "l", "o", "w">> }

RuleRunInputs == { None, <<"a", ",", " ", "b">> }

ConfigStates == {"missing", "unreadable", "malformed", "no_report_file", "valid"}

Init ==
    /\ main_in = NoCommand
    /\ pc = "main"
    /\ args = NoArgs
    /\ results = <<>>
    /\ outcome = NoOutcome
    /\ trace = <<>>
    /\ ret = Running
    /\ PathIdle
    /\ OptIdle
    /\ ViewIdle

\* main, Commands::Analyze
MainAnalyze ==
    /\ pc = "main"
    /\ \E kind \in PathKinds, t \in {None, <<"t">>}, o \in OutputInputs,
          ast \in BOOLEAN, ig \in IgnoreRunInputs, ir \in RuleRunInputs,
          v \in BOOLEAN, q \in BOOLEAN :
         /\ main_in' = [NoCommand EXCEPT !.command = "analyze",
                                         !.verbose = v, !.quiet = q]
         /\ args' = [path |-> kind, templates |-> t, output |-> o,
                     generate_ast |-> ast, ignore |-> ig, ignore_rules |-> ir,
                     verbose |-> v, quiet |-> q]
    /\ pc' = "validate"
    /\ UNCHANGED <<results, outcome, trace, ret, pathVars, optVars, viewVars>>

\* main, Commands::Config: the file named by --config is in some state
MainConfig ==
    /\ pc = "main"
    /\ \E st \in ConfigStates, v \in BOOLEAN, q \in BOOLEAN :
         \/ /\ st # "valid"
            /\ main_in' = [NoCommand EXCEPT !.command = "config", !.verbose = v,
                             !.quiet = q, !.config = [NoConfig EXCEPT !.state = st]]
         \/ /\ st = "valid"
            /\ \E kind \in PathKinds, ast \in BOOLEAN, cv \in BOOLEAN, cq \in BOOLEAN,
                  rf \in OutputInputs \ {None},
                  is \in { <<>>, << <<"l", "o", "w">>, <<"H", "I">> >> },
                  ir \in { <<>>, << <<"a">>, <<"b">> >> },
                  rt \in { <<>>, << <<"s", "o", "l", "a", "n", "a">> >> } :
                 main_in' = [NoCommand EXCEPT !.command = "config", !.verbose = v,
                               !.quiet = q,
                               !.config = [state |-> "valid", path |-> kind,
                                           generate_ast |-> ast, report_file |-> rf,
                                           ignore_severities |-> is,
                                           ignore_rules |-> ir,
                                           include_rule_types |-> rt,
                                           verbose |-> cv, quiet |-> cq]]
    /\ pc' = "config"
    /\ UNCHANGED <<args, results, outcome, trace, ret, pathVars, optVars, viewVars>>

\* main, Commands::ListRules: the engine's catalog is some list of rules
MainListRules ==
    /\ pc = "main"
    /\ \E n \in 0..MaxRules : \E f \in [1..n -> Severity] :
       \E sf \in FilterInputs, d \in BOOLEAN, v \in BOOLEAN, q \in BOOLEAN :
         main_in' = [NoCommand EXCEPT !.command = "list-rules", !.verbose = v,
                       !.quiet = q, !.severity = sf, !.detailed = d,
                       !.rules = RulesFrom(f)]
    /\ pc' = "list_rules"
    /\ UNCHANGED <<args, results, outcome, trace, ret, pathVars, optVars, viewVars>>

RuleIdInputs ==
    { <<"r", "1">>, <<"R", "2">>, <<"r", "3">>, <<"z", "z">>, <<"R", "1", " ">> }

\* main, Commands::RuleInfo: the engine's catalog is some list of rules
MainRuleInfo ==
    /\ pc = "main"
    /\ \E n \in 0..MaxRules : \E f \in [1..n -> Severity] :
       \E id \in RuleIdInputs, v \in BOOLEAN, q \in BOOLEAN :
         main_in' = [NoCommand EXCEPT !.command = "rule-info", !.verbose = v,
                       !.quiet = q, !.rule_id = id, !.rules = RulesFrom(f)]
    /\ pc' = "rule_info"
    /\ UNCHANGED <<args, results, outcome, trace, ret, pathVars, optVars, viewVars>>

InitOutputInputs ==
    { <<"e", "l", "o", "i", "z", "e", "r", ".", "t", "o", "m", "l">>, <<"c">> }

\* main, Commands::Init
MainInit ==
    /\ pc = "main"
    /\ \E o \in InitOutputInputs, v \in BOOLEAN, q \in BOOLEAN :
         main_in' = [NoCommand EXCEPT !.command = "init", !.verbose = v,
                       !.quiet = q, !.output = o]
    /\ pc' = "init"
    /\ UNCHANGED <<args, results, outcome, trace, ret, pathVars, optVars, viewVars>>

\* rule_info::run
RuleInfoRun ==
    /\ pc = "rule_info"
    /\ LET r == RuleInfo(main_in.rules, main_in.rule_id)
       IN /\ trace' = trace \o r.out
          /\ ret' = IF r.result = "Ok" THEN Ok ELSE Err("rule_not_found", "-")
    /\ pc' = "done"
    /\ UNCHANGED <<main_in, args, results, outcome, pathVars, optVars, viewVars>>

\* init::run: a template configuration file is written at the output path;
\* the write succeeds or fails
InitRun ==
    /\ pc = "init"
    /\ \E written \in BOOLEAN :
         /\ trace' = trace \o
               <<Ev("write_config_template", IF written THEN "Ok" ELSE "Err", 0, 0)>>
         /\ ret' = IF written THEN Ok ELSE Err("io", "-")
    /\ pc' = "done"
    /\ UNCHANGED <<main_in, args, results, outcome, pathVars, optVars, viewVars>>

\* config::run up to its call of analyze::run
ConfigRun ==
    /\ pc = "config"
    /\ LET c == main_in.config
       IN \/ /\ c.state = "missing"
             /\ trace' = trace \o <<Line("err_config_not_found"), Line("hint_init")>>
             /\ ret' = Err("config_not_found", "-")
             /\ pc' = "done"
             /\ UNCHANGED args
          \/ /\ c.state = "unreadable"
             /\ trace' = trace \o <<Line("read_to_string")>>
             /\ ret' = Err("io", "-")
             /\ pc' = "done"
             /\ UNCHANGED args
          \/ /\ c.state \in {"malformed", "no_report_file"}
             /\ trace' = trace \o <<Line("read_to_string"), Line("err_config_parse")>>
             /\ ret' = Err("config_parse", "-")
             /\ pc' = "done"
             /\ UNCHANGED args
          \/ /\ c.state = "valid"
             /\ trace' = trace \o <<Line("read_to_string"), Line("using_configuration")>>
             /\ args' = [path |-> c.path,
                         templates |-> None,
                         output |-> c.report_file,
                         generate_ast |-> c.generate_ast,
                         ignore |-> IF c.ignore_severities = <<>> THEN None
                                    ELSE Join(c.ignore_severities, <<",">>),
                         ignore_rules |-> IF c.ignore_rules = <<>> THEN None
                                          ELSE Join(c.ignore_rules, <<",">>),
                         verbose |-> main_in.verbose \/ c.verbose,
                         quiet |-> main_in.quiet \/ c.quiet]
             /\ pc' = "validate"
             /\ UNCHANGED ret
    /\ UNCHANGED <<main_in, results, outcome, pathVars, optVars, viewVars>>

\* list_rules::run
ListRulesRun ==
    /\ pc = "list_rules"
    /\ LET r == ListRules(main_in.rules, main_in.severity, main_in.detailed)
       IN /\ trace' = trace \o r.out
          /\ ret' = IF r.result = "Ok" THEN Ok ELSE Err("unknown_severity", "-")
    /\ pc' = "done"
    /\ UNCHANGED <<main_in, args, results, outcome, pathVars, optVars, viewVars>>

\* analyze::run: banner and path checks
AnalyzeValidate ==
    /\ pc = "validate"
    /\ LET st == ValidatePath(args)
       IN /\ trace' = trace \o st.out
          /\ pc' = st.pc
          /\ ret' = st.ret
    /\ UNCHANGED <<main_in, args, results, outcome, pathVars, optVars, viewVars>>

\* analyze::run: discovery; the directory holds some number of Rust files
AnalyzeDiscover ==
    /\ pc = "discover"
    /\ \E n \in 0..MaxFiles :
         LET files == [i \in 1..n |-> i]
             st == Discover(args, files)
         IN /\ results' = files
            /\ trace' = trace \o st.out
            /\ pc' = st.pc
            /\ ret' = st.ret
    /\ UNCHANGED <<main_in, args, outcome, pathVars, optVars, viewVars>>

\* analyze::run: the AST files; any of the writes may fail
AnalyzeEmitAst ==
    /\ pc = "emit_ast"
    /\ \E written \in 0..Len(results) :
         LET st == EmitAst(args, results, written)
         IN /\ trace' = trace \o st.out
            /\ pc' = st.pc
            /\ ret' = st.ret
    /\ UNCHANGED <<main_in, args, results, outcome, pathVars, optVars, viewVars>>

\* analyze::run, lines 121-159: the options
AnalyzeBuildOptions ==
    /\ pc = "build_options"
    /\ LET b == BuildOptions(args.generate_ast, args.templates, args.ignore,
                             args.ignore_rules)
       IN /\ opt_out' = [built |-> TRUE, options |-> b.options, warnings |-> b.warnings]
          /\ trace' = trace \o When(~args.quiet, <<Line("running_analysis")>>) \o
                      [i \in 1..Len(b.warnings) |-> Line("warn_unknown_severity")]
    /\ pc' = "analyze"
    /\ UNCHANGED <<main_in, args, results, outcome, ret, pathVars, opt_in, viewVars>>

\* analyze::run, lines 161-179: the engine runs and returns findings (none
\* of an ignored severity) with its stats, or an error
AnalyzeEngine ==
    /\ pc = "analyze"
    /\ trace' = trace \o CallEngine(args, results)
    /\ \/ \E n \in 0..MaxRunFindings : \E f \in [1..n -> Severity] :
            LET findings == [i \in 1..n |->
                                [description |-> i, severity |-> f[i],
                                 code_snippet |-> TRUE, recommendations |-> TRUE]]
            IN /\ RespectsIgnores(opt_out.options, f)
               /\ \E st \in EngineStats(findings) :
                     outcome' = [status |-> "Ok", message |-> "-",
                                 findings |-> findings, stats |-> st]
       \/ \E m \in {"e1", "e2"} :
            outcome' = [status |-> "Err", message |-> m, findings |-> <<>>,
                        stats |-> NoStats]
    /\ pc' = "report"
    /\ UNCHANGED <<main_in, args, results, ret, pathVars, optVars, viewVars>>

\* analyze::run, lines 180-228: the match on the engine's result
AnalyzeReport ==
    /\ pc = "report"
    /\ \/ /\ outcome.status = "Ok"
          /\ \E saved \in BOOLEAN :
               /\ args.output = None => saved
               /\ trace' = trace \o
                           ReportOk(args, AnalysisResultOf(outcome.findings, outcome.stats),
                                    saved)
               /\ ret' = IF saved THEN Ok ELSE Err("save_report", "-")
               /\ IF args.output = None
                  THEN UNCHANGED <<final_path, save_result>>
                  ELSE /\ final_path' = FinalPath(args.output)
                       /\ save_result' = IF saved THEN "Ok" ELSE "Err"
       \/ /\ outcome.status = "Err"
          /\ trace' = trace \o ReportErr(args)
          /\ ret' = Err("analysis_failed", outcome.message)
          /\ UNCHANGED <<final_path, save_result>>
    /\ pc' = "done"
    /\ UNCHANGED <<main_in, args, results, outcome, output_path, optVars, viewVars>>

Next ==
    \/ MainAnalyze
    \/ MainConfig
    \/ MainListRules
    \/ MainRuleInfo
    \/ MainInit
    \/ ConfigRun
    \/ ListRulesRun
    \/ RuleInfoRun
    \/ InitRun
    \/ AnalyzeValidate
    \/ AnalyzeDiscover
    \/ AnalyzeEmitAst
    \/ AnalyzeBuildOptions
    \/ AnalyzeEngine
    \/ AnalyzeReport

Spec == Init /\ [][Next]_vars

(***************************************************************************)
(* C4: path normalisation of save_report                                   *)
(***************************************************************************)
HasFileName(p) == LastNormal(p, Len(p)) # <<0, 0>>

\* r is what replacing an extension may remove: an optional ".ext" (ext
\* without "." or "/"), then only trailing separators and "." components
IsRemovedTail(r) ==
    \E e \in 0..Len(r) :
        /\ e = 0 \/ r[1] = "."
        /\ \A i \in 2..e : r[i] \notin {".", "/"}
        /\ e < Len(r) => r[e + 1] = "/"
        /\ \A i \in (e + 1)..Len(r) : r[i] \in {".", "/"}

ExtensionReplaced(p, f) ==
    \E k \in 1..Len(p) :
        /\ f = SubSeq(p, 1, k) \o S_md
        /\ p[k] # "/"
        /\ IsRemovedTail(SubSeq(p, k + 1, Len(p)))

\* C4 (as claimed): every final path handed to the report generator ends in
\* ".md"; a path already ending in ".md" is unchanged and any other path has
\* its extension replaced by (or gets appended) ".md".
C4_Original ==
    save_result # "none" =>
        /\ EndsWith(final_path, S_md)
        /\ EndsWith(output_path, S_md) => final_path = output_path
        /\ ~EndsWith(output_path, S_md) => ExtensionReplaced(output_path, final_path)

\* C4 (amended): a requested path ending in ".md" or ".markdown" is passed
\* unchanged, and so is a path without a file name (empty, "/", ".", or
\* ending in ".."); every other path has its extension replaced by (or gets
\* appended) ".md", so the final path then ends in ".md".  Normalising the
\* final path again changes nothing.
C4_PathNormalisation ==
    save_result # "none" =>
        /\ (EndsWith(output_path, S_md) \/ EndsWith(output_path, S_markdown))
              => final_path = output_path
        /\ ~HasFileName(output_path) => final_path = output_path
        /\ ( /\ ~EndsWith(output_path, S_md)
             /\ ~EndsWith(output_path, S_markdown)
             /\ HasFileName(output_path) )
              => /\ ExtensionReplaced(output_path, final_path)
                 /\ EndsWith(final_path, S_md)
        /\ FinalPath(final_path) = final_path

\* C4 witness: a path with another extension was saved under ".md"
C4_Witness ==
    /\ save_result = "Ok"
    /\ output_path = <<"r", "/", "r", ".", "t">>
    /\ final_path = <<"r", "/", "r", ".", "m", "d">>

(***************************************************************************)
(* C8, C9: the ignore lists built by run                                   *)
(***************************************************************************)
TokensOf(str) == IF str = None THEN <<>> ELSE Split(str, ",")

Occurrences(seq, x) == Cardinality({i \in 1..Len(seq) : seq[i] = x})

LowerName(sev) ==
    CASE sev = "High" -> S_high
      [] sev = "Medium" -> S_medium
      [] sev = "Low" -> S_low
      [] sev = "Informational" -> S_informational

IsSeverityToken(t) == \E sev \in Severity : ToLowercase(Trim(t)) = LowerName(sev)

\* C8 (as claimed): a severity or rule id occurring several times among the
\* tokens appears only once in the resulting options.
C8_Original ==
    opt_out.built =>
        /\ \A sev \in Severity :
              Occurrences(opt_out.options.ignore_severities, sev) <= 1
        /\ \A i \in 1..Len(opt_out.options.ignore_rules) :
              Occurrences(opt_out.options.ignore_rules,
                          opt_out.options.ignore_rules[i]) = 1

\* C8 (amended): the ignore lists are vectors used for membership: a severity
\* (rule id) appears in the options once per token that names it, so
\* duplicates are kept, and it is a member exactly when some token names it.
C8_IgnoreListsKeepDuplicates ==
    opt_out.built =>
        LET stoks == TokensOf(opt_in.ignore)
            rtoks == TokensOf(opt_in.ignore_rules)
        IN /\ \A sev \in Severity :
                Occurrences(opt_out.options.ignore_severities, sev) =
                Cardinality({i \in 1..Len(stoks) :
                                ToLowercase(Trim(stoks[i])) = LowerName(sev)})
           /\ \A k \in 1..Len(rtoks) :
                Occurrences(opt_out.options.ignore_rules, Trim(rtoks[k])) =
                Cardinality({i \in 1..Len(rtoks) : Trim(rtoks[i]) = Trim(rtoks[k])})
           /\ Len(opt_out.options.ignore_rules) = Len(rtoks)

\* C8 witness: a severity named twice is in the list twice
C8_Witness ==
    /\ opt_out.built
    /\ opt_in.ignore = <<" ", "L", "o", "w", " ", ",", "l", "o", "w">>
    /\ opt_out.options.ignore_severities = <<"Low", "Low">>

\* C9: the severities in options.ignore_severities are exactly the tokens
\* that, trimmed and lower-cased, are high, medium, low or informational, in
\* token order; every other token is only warned about and dropped, and the
\* tokens after it are still processed.
C9_IgnoreSeveritiesParsed ==
    opt_out.built =>
        LET toks == TokensOf(opt_in.ignore)
            sevs == opt_out.options.ignore_severities
            good == {i \in 1..Len(toks) : IsSeverityToken(toks[i])}
            bad == (1..Len(toks)) \ good
            Rank(S, i) == Cardinality({j \in S : j <= i})
        IN /\ Len(sevs) = Cardinality(good)
           /\ \A i \in good : ToLowercase(Trim(toks[i])) = LowerName(sevs[Rank(good, i)])
           /\ Len(opt_out.warnings) = Cardinality(bad)
           /\ \A i \in bad : opt_out.warnings[Rank(bad, i)] = toks[i]

\* C9 witness: an unknown token was warned about and the token after it kept
C9_Witness ==
    /\ opt_out.built
    /\ opt_in.ignore = <<"c", "r", "i", "t", "i", "c", "a", "l", ",",
                         "\f", "M", "E", "D", "I", "U", "M", " ">>
    /\ opt_out.options.ignore_severities = <<"Medium">>
    /\ Len(opt_out.warnings) = 1

(***************************************************************************)
(* C1, C2, C3: the grouped views                                           *)
(***************************************************************************)
CanonicalOrder == <<"High", "Medium", "Low", "Informational">>

RankOf(sev) == CHOOSE k \in 1..Len(CanonicalOrder) : CanonicalOrder[k] = sev

HeaderSeverities(evs) ==
    LET hs == SelectKind(evs, "header") IN [k \in 1..Len(hs) |-> hs[k].sev]

\* the rules a listing shows: all of them, or those of the severity the
\* filter names (none for a filter naming no severity)
ListedRules ==
    IF view_in.severity_filter = None THEN view_in.rules
    ELSE SelectSeq(view_in.rules,
            LAMBDA r : ToLowercase(view_in.severity_filter) = LowerName(r.severity))

\* C1: the severity headers of the detail view and of the rule listing are
\* High, Medium, Low, Informational restricted to the severities that have a
\* member, in that order, whatever the order of the input.
C1_HeadersInCanonicalOrder ==
    view_out.done =>
        /\ view_in.kind = "findings" =>
              HeaderSeverities(view_out.details) =
              SelectSeq(CanonicalOrder,
                  LAMBDA sev : \E i \in 1..Len(view_in.findings) :
                                  view_in.findings[i].severity = sev)
        /\ view_in.kind = "rules" =>
              HeaderSeverities(view_out.listing) =
              SelectSeq(CanonicalOrder,
                  LAMBDA sev : \E i \in 1..Len(ListedRules) :
                                  ListedRules[i].severity = sev)

\* C1 witness: input order Low, Medium, High is shown as High, Medium, Low,
\* in the detail view
C1_Witness ==
    /\ view_out.done
    /\ view_in.kind = "findings"
    /\ Len(view_in.findings) = 3
    /\ view_in.findings[1].severity = "Low"
    /\ view_in.findings[2].severity = "Medium"
    /\ view_in.findings[3].severity = "High"
    /\ HeaderSeverities(view_out.details) = <<"High", "Medium", "Low">>

\* C2: the detail view emits each finding exactly once, in the order of a
\* stable partition by severity, and the k-th emitted finding carries the
\* number k (1..n, never reset at a group boundary).
C2_StablePartitionNumbering ==
    (view_out.done /\ view_in.kind = "findings") =>
        LET fs == view_in.findings
            em == SelectKind(view_out.details, "finding")
        IN /\ Len(em) = Len(fs)
           /\ \A k \in 1..Len(em) :
                /\ em[k].n = k
                /\ em[k].i \in 1..Len(fs)
                /\ em[k].sev = fs[em[k].i].severity
           /\ \A i \in 1..Len(fs) : \E k \in 1..Len(em) : em[k].i = i
           /\ \A a, b \in 1..Len(em) :
                a < b =>
                    \/ RankOf(em[a].sev) < RankOf(em[b].sev)
                    \/ em[a].sev = em[b].sev /\ em[a].i < em[b].i

\* C2 witness: findings Low, High, High are shown as 2nd, 3rd, 1st of the
\* engine order, numbered 1, 2, 3 across the two groups
C2_Witness ==
    /\ view_out.done
    /\ view_in.kind = "findings"
    /\ Len(view_in.findings) = 3
    /\ view_in.findings[1].severity = "Low"
    /\ view_in.findings[2].severity = "High"
    /\ view_in.findings[3].severity = "High"
    /\ LET em == SelectKind(view_out.details, "finding")
       IN /\ Len(em) = 3
          /\ em[1].i = 2 /\ em[2].i = 3 /\ em[3].i = 1
          /\ em[3].n = 3

\* a summary of a result with at least one finding has been printed
SummaryPrinted ==
    /\ view_out.done
    /\ view_in.kind \in {"findings", "summary"}
    /\ Len(view_in.findings) >= 1

\* the count lines of the summary are the non-empty severity groups of the
\* findings, each with the size of its group
CountLinesAreGroups ==
    LET fs == view_in.findings
        sm == view_out.summary
        NumberOf(sev) == Cardinality({i \in 1..Len(fs) : fs[i].severity = sev})
        counts == {k \in 1..Len(sm) : sm[k].k = "count"}
    IN /\ \A sev \in Severity :
            Cardinality({c \in counts : sm[c].sev = sev}) =
                IF NumberOf(sev) > 0 THEN 1 ELSE 0
       /\ \A c \in counts : sm[c].n = NumberOf(sm[c].sev)

TotalLineFirst ==
    LET sm == view_out.summary
        totals == {k \in 1..Len(sm) : sm[k].k = "total"}
        counts == {k \in 1..Len(sm) : sm[k].k = "count"}
    IN /\ Cardinality(totals) = 1
       /\ \A t \in totals :
            sm[t].n = Len(view_in.findings) /\ \A c \in counts : t < c

\* C3 (as claimed): for every result with at least one finding the summary
\* prints the total findings.len() and then one count line per severity that
\* has findings, none for the others, each showing the number of findings of
\* that severity.
C3_Original ==
    SummaryPrinted => (TotalLineFirst /\ CountLinesAreGroups)

\* C3 (amended): for every result with at least one finding the summary
\* prints the total findings.len() and then one count line per severity that
\* is a key of stats.findings_by_severity, in the order High, Medium, Low,
\* Informational, each showing the count stored under that key (a zero
\* included); the lines are the non-empty severity groups with their sizes
\* exactly when the stats hold the number of findings of every severity that
\* occurs and no entry for a severity that does not.
C3_SummaryReadsStats ==
    SummaryPrinted =>
        LET st == view_in.stats
            counts == SelectKind(view_out.summary, "count")
        IN /\ TotalLineFirst
           /\ [k \in 1..Len(counts) |-> counts[k].sev] =
                 SelectSeq(CanonicalOrder, LAMBDA sev : sev \in DOMAIN st)
           /\ \A k \in 1..Len(counts) : counts[k].n = st[counts[k].sev]
           /\ CountLinesAreGroups <=> st = StatsOf(view_in.findings)

\* C3 witness: Low, High, High with the stats High: 2, Medium: 0, Low: 1 is
\* summarised as total 3, High: 2, Medium: 0, Low: 1
C3_Witness ==
    /\ view_out.done
    /\ view_in.kind = "summary"
    /\ Len(view_in.findings) = 3
    /\ view_in.findings[1].severity = "Low"
    /\ view_in.findings[2].severity = "High"
    /\ view_in.findings[3].severity = "High"
    /\ DOMAIN view_in.stats = {"High", "Medium", "Low"}
    /\ SelectKind(view_out.summary, "total") = <<Ev("total", "-", 3, 0)>>
    /\ SelectKind(view_out.summary, "count") =
         <<Ev("count", "High", 2, 0), Ev("count", "Medium", 0, 0),
           Ev("count", "Low", 1, 0)>>

(***************************************************************************)
(* C5, C6, C7, C10: the runs of the commands                               *)
(***************************************************************************)
Count(k) == Cardinality({i \in 1..Len(trace) : trace[i].k = k})
Has(k) == \E i \in 1..Len(trace) : trace[i].k = k

DiscoveryWork == {"process_directory"}
EngineWork == {"create_analyzer", "rules", "create_analyzer_with_options",
               "analyze_files"}
ReportingWork == {"print_summary", "summary_title", "print_findings",
                  "details_title", "save_markdown_report", "report_saved"}

NoneOf(kinds) == \A i \in 1..Len(trace) : trace[i].k \notin kinds

\* C5: when discovery returns no file the run ends Ok right after the "no
\* files found" notice: the engine is neither constructed nor invoked, no
\* AST file is written, and no summary, detail view or report is produced.
C5_EmptyDiscoveryEndsDone ==
    (\E i \in 1..Len(trace) : trace[i].k = "process_directory" /\ trace[i].n = 0) =>
        /\ pc = "done"
        /\ ret = Ok
        /\ trace[Len(trace)].k = "no_files_found"
        /\ NoneOf(EngineWork \cup ReportingWork \cup {"fs_write"})
        /\ ~opt_out.built
        /\ outcome = NoOutcome
        /\ save_result = "none"

\* C5 witness: a run with AST output requested found no file and returned Ok
C5_Witness ==
    /\ pc = "done"
    /\ ret = Ok
    /\ args.path = "dir"
    /\ args.generate_ast
    /\ results = <<>>
    /\ Has("no_files_found")

\* the command has returned on an invalid input
PathInvalid ==
    /\ main_in.command \in {"analyze", "config"}
    /\ args.path \in {"missing", "file"}
    /\ pc = "done"

ConfigInvalid ==
    /\ main_in.command = "config"
    /\ main_in.config.state \in {"missing", "malformed", "no_report_file"}
    /\ pc = "done"

FilterInvalid ==
    /\ main_in.command = "list-rules"
    /\ main_in.severity # None
    /\ \A sev \in Severity : ToLowercase(main_in.severity) # LowerName(sev)
    /\ pc = "done"

\* C6 (as claimed): every input-validation error makes the command fail
\* before any work: no discovery, no engine or catalog construction, no
\* analysis.
C6_Original ==
    (PathInvalid \/ ConfigInvalid \/ FilterInvalid) =>
        /\ ret.status = "Err"
        /\ NoneOf(DiscoveryWork \cup EngineWork)

\* C6 (amended): an invalid analyze path and an invalid config file make the
\* command fail before any discovery, engine or catalog construction or
\* analysis; an unrecognized list-rules filter makes the command fail after
\* the analyzer and its catalog have been constructed, before any rule is
\* listed.
C6_ValidationErrors ==
    /\ (PathInvalid \/ ConfigInvalid) =>
          /\ ret.status = "Err"
          /\ ret.error \in {"path_missing", "not_a_directory", "config_not_found",
                            "config_parse"}
          /\ NoneOf(DiscoveryWork \cup EngineWork \cup ReportingWork \cup {"fs_write"})
    /\ FilterInvalid =>
          /\ ret = Err("unknown_severity", "-")
          /\ trace = <<Line("rules_title"), Line("create_analyzer"), Line("rules"),
                       Line("err_unknown_severity")>>

\* C6 witness: list-rules with the filter "critical" has failed, the catalog
\* having been built
C6_Witness ==
    /\ FilterInvalid
    /\ main_in.severity = <<"c", "r", "i", "t", "i", "c", "a", "l">>
    /\ Len(main_in.rules) = 2
    /\ ret.status = "Err"
    /\ Has("create_analyzer")

\* C7: a run that reaches Analyzing invokes analyze_files exactly once, with
\* the full collection of parsed files; if it fails the run returns Err with
\* the engine's message and produces no summary, detail view or report.
C7_EngineInvokedOnce ==
    /\ Count("analyze_files") <= 1
    /\ Count("analyze_files") = Count("create_analyzer_with_options")
    /\ (pc \in {"main", "config", "list_rules", "rule_info", "init", "validate",
                "discover", "emit_ast", "build_options", "analyze"})
          => Count("analyze_files") = 0
    /\ (pc = "report" \/ outcome.status # "none") =>
          /\ Count("analyze_files") = 1
          /\ \A i \in 1..Len(trace) :
                trace[i].k = "analyze_files" =>
                    trace[i].n = Len(results) /\ Len(results) >= 1
    /\ (pc = "done" /\ outcome.status = "Err") =>
          /\ ret = Err("analysis_failed", outcome.message)
          /\ NoneOf(ReportingWork)
          /\ save_result = "none"
          /\ trace[Len(trace)].k = "err_analysis_failed"

\* C7 witness: the engine failed on two files with message e2
C7_Witness ==
    /\ pc = "done"
    /\ Len(results) = 2
    /\ outcome.status = "Err"
    /\ ret = Err("analysis_failed", "e2")
    /\ Count("analyze_files") = 1

EngineSucceeded == pc = "done" /\ outcome.status = "Ok"

\* C10 (as claimed): when the engine succeeds the summary is rendered, the
\* detail view is rendered exactly when no report path was requested and the
\* report is written exactly when one was, for every verbose and quiet.
C10_Original ==
    EngineSucceeded =>
        /\ Has("print_summary")
        /\ Has("print_findings") <=> args.output = None
        /\ Has("save_markdown_report") <=> args.output # None

\* C10 (amended): when the engine succeeds the summary is rendered exactly
\* when quiet is off, the detail view exactly when quiet is off and no report
\* path was requested, and the report generator is asked to write the
\* document exactly when a path was requested, whatever verbose and quiet.
C10_ReportingModes ==
    EngineSucceeded =>
        LET analysis_result == AnalysisResultOf(outcome.findings, outcome.stats)
        IN /\ Has("print_summary") <=> ~args.quiet
           /\ Has("summary_title") <=> ~args.quiet
           /\ Has("print_findings") <=> (args.output = None /\ ~args.quiet)
           /\ Has("details_title") <=>
                 (args.output = None /\ ~args.quiet /\ outcome.findings # <<>>)
           /\ Count("finding") =
                 IF args.output = None /\ ~args.quiet THEN Len(outcome.findings) ELSE 0
           /\ Has("save_markdown_report") <=> args.output # None
           /\ Count("save_markdown_report") <= 1
           /\ Count("print_summary") <= 1
           /\ Count("print_findings") <= 1

\* C10 witness: a quiet run with a report path wrote the report and printed
\* neither view
C10_Witness ==
    /\ EngineSucceeded
    /\ args.quiet
    /\ args.output = <<"r">>
    /\ Len(outcome.findings) = 2
    /\ save_result = "Ok"
    /\ final_path = <<"r", ".", "m", "d">>
    /\ trace[Len(trace)].k = "save_markdown_report"

(***************************************************************************)
(* C11: the return value of analyze::run                                   *)
(***************************************************************************)
\* analyze::run has been called (by main or by config::run)
RunEntered == args # NoArgs

RunReturned == RunEntered /\ pc = "done"

WriteFailed == \E i \in 1..Len(trace) : trace[i].k = "fs_write" /\ trace[i].sev = "Err"

\* the error a run returns for the step that failed, "-" when none did
FailedStep ==
    IF args.path = "missing" THEN "path_missing"
    ELSE IF args.path # "dir" THEN "not_a_directory"
    ELSE IF WriteFailed THEN "io"
    ELSE IF outcome.status = "Err" THEN "analysis_failed"
    ELSE IF save_result = "Err" THEN "save_report"
    ELSE "-"

\* the trace events that record a failed step
IsFailure(e) ==
    \/ e.k \in {"err_path_missing", "err_not_a_directory", "err_analysis_failed",
                "err_save_failed"}
    \/ e.k = "fs_write" /\ e.sev = "Err"

\* C11: analyze::run returns Err exactly when a step failed (the path is
\* missing or not a directory, an AST file write fails, the engine fails, the
\* report cannot be saved), with the error of that step; a run that finds no
\* file returns Ok and so does a run whose analysis finds nothing; a failed
\* step is the last thing the run does, and no step is done twice.
C11_ErrIffFailedStep ==
    /\ (RunEntered /\ pc # "done") => ret = Running
    /\ RunReturned =>
          /\ ret.status \in {"Ok", "Err"}
          /\ ret.status = "Err" <=> FailedStep # "-"
          /\ ret.error = FailedStep
          /\ (results = <<>> /\ Has("process_directory")) => ret = Ok
          /\ ( /\ outcome.status = "Ok"
               /\ outcome.findings = <<>>
               /\ save_result # "Err" ) => ret = Ok
    /\ RunEntered =>
          /\ \A i \in 1..Len(trace) :
                IsFailure(trace[i]) => (i = Len(trace) /\ pc = "done")
          /\ Count("process_directory") <= 1
          /\ Count("analyze_files") <= 1
          /\ Count("save_markdown_report") <= 1
          /\ \A i, j \in 1..Len(trace) :
                (trace[i].k = "fs_write" /\ trace[j].k = "fs_write" /\ i # j)
                    => trace[i].i # trace[j].i

\* C11 witness: the second AST write of a run failed after the first had
\* succeeded, and the run returned the I/O error
C11_Witness ==
    /\ RunReturned
    /\ Len(results) = 2
    /\ ret = Err("io", "-")
    /\ Len(SelectKind(trace, "fs_write")) = 2
    /\ trace[Len(trace)] = Ev("fs_write", "Err", 0, 2)
    /\ ~Has("analyze_files")

(***************************************************************************)
(* C12: the progress indicators of analyze::run                            *)
(***************************************************************************)
\* the number of spinners started and not yet stopped after the first n
\* events of the run
ActiveSpinners(n) ==
    Cardinality({i \in 1..n : trace[i].k = "spinner_start"}) -
    Cardinality({i \in 1..n : trace[i].k = "spinner_stop"})

\* the calls run makes while a spinner may be active: they print nothing
\* themselves
SilentCalls == {"process_directory", "analyze_files"}

\* C12: nothing is printed while a progress indicator is active: between a
\* spinner's start and its stop the run only calls process_directory or
\* analyze_files, the stop comes before the next message on the success and
\* on the failure branch of the engine, a spinner is stopped only when one
\* is active, a quiet run starts none, and when the run returns every
\* spinner it started has been stopped.
C12_NoOutputWhileSpinnerActive ==
    RunEntered =>
        /\ \A i \in 1..Len(trace) :
              /\ ActiveSpinners(i - 1) \in {0, 1}
              /\ ActiveSpinners(i - 1) = 1 =>
                    trace[i].k \in SilentCalls \cup {"spinner_stop"}
              /\ trace[i].k = "spinner_stop" => ActiveSpinners(i - 1) = 1
              /\ trace[i].k \in SilentCalls =>
                    (ActiveSpinners(i - 1) = 1 <=> ~args.quiet)
        /\ args.quiet => ~Has("spinner_start")
        /\ pc = "done" => ActiveSpinners(Len(trace)) = 0
        /\ ActiveSpinners(Len(trace)) = 1 =>
              (pc = "report" /\ trace[Len(trace)].k = "analyze_files")

\* C12 witness: the engine failed in a run that showed both spinners; each
\* was stopped, the second right before the failure message
C12_Witness ==
    /\ RunReturned
    /\ ~args.quiet
    /\ outcome.status = "Err"
    /\ Count("spinner_start") = 2
    /\ Count("spinner_stop") = 2
    /\ Len(trace) >= 3
    /\ trace[Len(trace) - 2].k = "analyze_files"
    /\ trace[Len(trace) - 1].k = "spinner_stop"
    /\ trace[Len(trace)].k = "err_analysis_failed"

(***************************************************************************)
(* C13: the rule types handed to the engine                                *)
(***************************************************************************)
\* the analyzer has been created with opt_out.options
ReachedEngine == Has("create_analyzer_with_options")

\* C13: in every run that reaches the engine, started by the analyze command
\* or by the config command, the options the analyzer is created with hold
\* include_rule_types = [Solana, Anchor, General], whatever the
\* rules.include_rule_types list of the configuration file is: the options
\* are those built from the parameters of analyze::run alone.
C13_AllRuleTypesAlways ==
    /\ opt_out.built =>
          opt_out.options.include_rule_types = <<"Solana", "Anchor", "General">>
    /\ ReachedEngine =>
          /\ opt_out.built
          /\ main_in.command \in {"analyze", "config"}
          /\ opt_out.options =
                BuildOptions(args.generate_ast, args.templates, args.ignore,
                             args.ignore_rules).options

\* C13 witness: a configuration file listing only "solana" started a run
\* that reached the engine with all three rule types
C13_Witness ==
    /\ main_in.command = "config"
    /\ main_in.config.include_rule_types = << <<"s", "o", "l", "a", "n", "a">> >>
    /\ ReachedEngine
    /\ Has("analyze_files")
    /\ opt_out.options.include_rule_types = <<"Solana", "Anchor", "General">>

====
